---------------------------- MODULE Spec2Model ----------------------------
(***************************************************************************)
(* MuGen MIDI preprocessing: pp/helpers.py (count_measures,                *)
(* extract_measure, split_midi_by_track_named, midi_to_velocity_matrix)    *)
(* and process_artist.py (data_from_song_pipeline).                        *)
(*                                                                         *)
(* A mido message is a record with a "type", a delta "time" and the        *)
(* attributes of its type; channel messages carry "channel", meta messages *)
(* do not.  A MidiTrack is a sequence of messages, a MidiFile a record     *)
(* [ticks_per_beat, tracks].  Every helper is a function of its arguments; *)
(* each is translated loop by loop as a RECURSIVE operator and applied by  *)
(* one action to inputs drawn from bounded sets.                           *)
(***************************************************************************)
EXTENDS Integers, Sequences, FiniteSets, TLC

VARIABLES mid, pc, measure_num, ret, width, rate, all_data_pairs, num_measures, history

vars == <<mid, pc, measure_num, ret, width, rate, all_data_pairs, num_measures, history>>

----------------------------------------------------------------------------
(* Bounds of the model *)

\* longest performance event stream of an input document
MaxLen == 3
\* longest Track[0] of an input document
MaxMetaLen == 2
\* largest measure number handed to extract_measure
MaxMeasure == 3
\* largest matrix width x handed to midi_to_velocity_matrix on its own
MaxWidth == 2
\* most performance tracks of an input document
MaxTracks == 2

----------------------------------------------------------------------------
(* mido messages *)

MetaTypes == {"track_name", "set_tempo", "time_signature", "key_signature", "lyrics"}

is_meta(msg) == msg.type \in MetaTypes

has_channel(msg) == "channel" \in DOMAIN msg

note_on(t, ch, n, v) ==
    [type |-> "note_on", time |-> t, channel |-> ch, note |-> n, velocity |-> v]

note_off(t, ch, n) ==
    [type |-> "note_off", time |-> t, channel |-> ch, note |-> n, velocity |-> 0]

program_change(t, ch, p) ==
    [type |-> "program_change", time |-> t, channel |-> ch, program |-> p]

control_change(t, ch, c, v) ==
    [type |-> "control_change", time |-> t, channel |-> ch, control |-> c, value |-> v]

time_signature(t, num, den) ==
    [type |-> "time_signature", time |-> t, numerator |-> num, denominator |-> den]

set_tempo(t, us) == [type |-> "set_tempo", time |-> t, tempo |-> us]

track_name(t, s) == [type |-> "track_name", time |-> t, name |-> s]

lyrics(t, s) == [type |-> "lyrics", time |-> t, text |-> s]

\* msg.copy(time=t)
copy_time(msg, t) == [msg EXCEPT !.time = t]

MidiFile(tpb, trks) == [ticks_per_beat |-> tpb, tracks |-> trks]

\* an exception leaving a helper, and a normal return
Raise(e) == [ok |-> FALSE, err |-> e]

Return(v) == [ok |-> TRUE, val |-> v]

NoCall == [ok |-> FALSE, err |-> "not called"]

BoundedSeq(S, n) == UNION {[1..k -> S] : k \in 0..n}

\* absolute tick of the i-th message of a track: the sum of the deltas up to it
RECURSIVE AbsTick(_, _)
AbsTick(track, i) == IF i = 0 THEN 0 ELSE AbsTick(track, i - 1) + track[i].time

----------------------------------------------------------------------------
(* count_measures *)

\* the loop over mid.tracks[0]; smallest = -1 stands for None
RECURSIVE ScanTimeSignatures(_, _, _, _)
ScanTimeSignatures(track, i, ticks_per_beat, smallest) ==
    IF i > Len(track) THEN smallest
    ELSE LET msg == track[i]
         IN  IF msg.type = "time_signature"
             THEN LET ticks_per_measure == msg.numerator * ticks_per_beat
                  IN  ScanTimeSignatures(track, i + 1, ticks_per_beat,
                         IF smallest = -1 \/ ticks_per_measure < smallest
                         THEN ticks_per_measure ELSE smallest)
             ELSE ScanTimeSignatures(track, i + 1, ticks_per_beat, smallest)

\* sum(msg.time for msg in track)
RECURSIVE total_ticks_of(_, _)
total_ticks_of(track, i) ==
    IF i > Len(track) THEN 0 ELSE track[i].time + total_ticks_of(track, i + 1)

\* the loop over mid.tracks keeping the longest total
RECURSIVE MaxTotalTicks(_, _, _)
MaxTotalTicks(tracks, k, max_total_ticks) ==
    IF k > Len(tracks) THEN max_total_ticks
    ELSE LET total_ticks == total_ticks_of(tracks[k], 1)
         IN  MaxTotalTicks(tracks, k + 1,
                IF total_ticks > max_total_ticks THEN total_ticks ELSE max_total_ticks)

\* lines 176-177: the default when no time signature was seen
SmallestOrDefault(found, ticks_per_beat) ==
    IF found = -1 THEN 4 * ticks_per_beat ELSE found

\* a mutation of FloorDiv: rounds up
CeilDiv(a, b) == (a + b - 1) \div b

\* max_total_ticks // smallest_ticks_per_measure
FloorDiv(a, b) == a \div b

count_measures(input_midi) ==
    IF Len(input_midi.tracks) = 0 THEN Raise("IndexError")
    ELSE LET ticks_per_beat == input_midi.ticks_per_beat
             found == ScanTimeSignatures(input_midi.tracks[1], 1, ticks_per_beat, -1)
             smallest_ticks_per_measure == SmallestOrDefault(found, ticks_per_beat)
             max_total_ticks == MaxTotalTicks(input_midi.tracks, 1, 0)
         IN  IF smallest_ticks_per_measure = 0 THEN Raise("ZeroDivisionError")
             ELSE Return(FloorDiv(max_total_ticks, smallest_ticks_per_measure))

----------------------------------------------------------------------------
(* extract_measure *)

\* lines 232-243: the first time_signature of Track[0], 4 when there is none.
\* The scan stops once both a signature and a tempo were found.
RECURSIVE FirstNumerator(_, _, _, _, _)
FirstNumerator(track, i, numerator, time_sig_found, tempo_found) ==
    IF i > Len(track) THEN numerator
    ELSE LET msg == track[i]
             is_sig == msg.type = "time_signature" /\ ~time_sig_found
             is_tempo == ~is_sig /\ msg.type = "set_tempo" /\ ~tempo_found
             num2 == IF is_sig THEN msg.numerator ELSE numerator
             sig2 == time_sig_found \/ is_sig
             tmp2 == tempo_found \/ is_tempo
         IN  IF sig2 /\ tmp2 THEN num2
             ELSE FirstNumerator(track, i + 1, num2, sig2, tmp2)

\* lines 269-272: the messages kept from before the window
IsContext(msg) ==
    \/ is_meta(msg) /\ msg.type \in {"track_name", "set_tempo", "time_signature", "key_signature"}
    \/ ~is_meta(msg) /\ msg.type \in {"program_change", "control_change"}

\* buffered_msgs.sort(key=lambda x: x[0]): a stable insertion sort on the tick
RECURSIVE InsertByTick(_, _)
InsertByTick(sorted, item) ==
    IF sorted = <<>> THEN <<item>>
    ELSE IF sorted[Len(sorted)][1] <= item[1] THEN Append(sorted, item)
    ELSE Append(InsertByTick(SubSeq(sorted, 1, Len(sorted) - 1), item), sorted[Len(sorted)])

RECURSIVE SortByTick(_, _)
SortByTick(buffered, k) ==
    IF k = 0 THEN <<>> ELSE InsertByTick(SortByTick(buffered, k - 1), buffered[k])

\* lines 282-287: the buffered messages with their deltas recomputed
RECURSIVE FlushBuffered(_, _, _)
FlushBuffered(buffered, k, prev_tick) ==
    IF k > Len(buffered) THEN <<>>
    ELSE <<copy_time(buffered[k][2], buffered[k][1] - prev_tick)>>
         \o FlushBuffered(buffered, k + 1, buffered[k][1])

\* a mutation of PastWindow: the message at end_tick is kept
PastWindowOffByOne(running_tick, end_tick) == running_tick > end_tick

\* line 275
PastWindow(running_tick, end_tick) == running_tick >= end_tick

\* line 268
BeforeWindow(running_tick, start_tick) == running_tick < start_tick

\* lines 264-294: the loop over one track
RECURSIVE ExtractTrack(_, _, _, _, _, _, _)
ExtractTrack(track, i, running, buffered_msgs, new_track, start_tick, end_tick) ==
    IF i > Len(track) THEN new_track
    ELSE LET msg == track[i]
             running_tick == running + msg.time
         IN  IF BeforeWindow(running_tick, start_tick)
             THEN ExtractTrack(track, i + 1, running_tick,
                     IF IsContext(msg) THEN Append(buffered_msgs, <<running_tick, msg>>)
                     ELSE buffered_msgs,
                     new_track, start_tick, end_tick)
             ELSE IF PastWindow(running_tick, end_tick) THEN new_track
             ELSE IF Len(new_track) = 0
             THEN ExtractTrack(track, i + 1, running_tick, buffered_msgs,
                     FlushBuffered(SortByTick(buffered_msgs, Len(buffered_msgs)), 1, 0)
                        \o <<copy_time(msg, running_tick - start_tick)>>,
                     start_tick, end_tick)
             ELSE ExtractTrack(track, i + 1, running_tick, buffered_msgs,
                     Append(new_track, msg), start_tick, end_tick)

\* lines 245-249
ticks_per_measure_of(input_midi) ==
    FirstNumerator(input_midi.tracks[1], 1, 4, FALSE, FALSE) * input_midi.ticks_per_beat

start_tick_of(n, input_midi) == (n - 1) * ticks_per_measure_of(input_midi)

end_tick_of(n, input_midi) == start_tick_of(n, input_midi) + ticks_per_measure_of(input_midi)

extract_measure(n, input_midi) ==
    IF Len(input_midi.tracks) = 0 THEN Raise("IndexError")
    ELSE Return(MidiFile(input_midi.ticks_per_beat,
            [k \in 1..Len(input_midi.tracks) |->
                ExtractTrack(input_midi.tracks[k], 1, 0, <<>>, <<>>,
                             start_tick_of(n, input_midi), end_tick_of(n, input_midi))]))

----------------------------------------------------------------------------
(* split_midi_by_track_named *)

\* the absent drum slot of the returned list
None == [absent |-> TRUE]

\* lines 69-71: used_channels of a track
RECURSIVE UsedChannels(_, _)
UsedChannels(track, i) ==
    IF i > Len(track) THEN {}
    ELSE (IF ~is_meta(track[i]) /\ has_channel(track[i]) THEN {track[i].channel} ELSE {})
         \cup UsedChannels(track, i + 1)

\* a mutation of IsDrumTrack: the percussion channel counted from 1
IsDrumTrackOneBased(used_channels) == 10 \in used_channels

\* a mutation of IsDrumTrack: only a track of nothing but channel 9 is a drum track
IsDrumTrackOnlyNine(used_channels) == used_channels = {9}

\* line 73
IsDrumTrack(used_channels) == 9 \in used_channels

\* a mutation of IsDrumMessage: every channel message of a drum track is taken
IsDrumMessageAnyChannel(msg) == ~is_meta(msg) /\ has_channel(msg)

\* line 75
IsDrumMessage(msg) == ~is_meta(msg) /\ has_channel(msg) /\ msg.channel = 9

\* lines 74-77: the channel-9 messages of a drum track, copied in order
RECURSIVE DrumMessages(_, _)
DrumMessages(track, i) ==
    IF i > Len(track) THEN <<>>
    ELSE (IF IsDrumMessage(track[i]) THEN <<track[i]>> ELSE <<>>) \o DrumMessages(track, i + 1)

\* lines 92-95 and 115-118: the meta messages of the global meta track
RECURSIVE MetaMessages(_, _)
MetaMessages(track, i) ==
    IF i > Len(track) THEN <<>>
    ELSE (IF is_meta(track[i]) THEN <<track[i]>> ELSE <<>>) \o MetaMessages(track, i + 1)

\* lines 98-100: new_track, a message by message copy
RECURSIVE CopyTrack(_, _)
CopyTrack(track, i) ==
    IF i > Len(track) THEN <<>> ELSE <<track[i]>> \o CopyTrack(track, i + 1)

\* lines 65-103: the loop over mid.tracks[1:]
RECURSIVE SplitLoop(_, _, _, _, _)
SplitLoop(input_midi, k, return_midis, drum_track, has_drum_data) ==
    IF k > Len(input_midi.tracks)
    THEN [return_midis |-> return_midis, drum_track |-> drum_track,
          has_drum_data |-> has_drum_data]
    ELSE LET track == input_midi.tracks[k]
             used_channels == UsedChannels(track, 1)
             drums == DrumMessages(track, 1)
         IN  IF IsDrumTrack(used_channels)
             THEN SplitLoop(input_midi, k + 1, return_midis, drum_track \o drums,
                            has_drum_data \/ drums # <<>>)
             ELSE SplitLoop(input_midi, k + 1,
                     Append(return_midis,
                            MidiFile(input_midi.ticks_per_beat,
                                     <<MetaMessages(input_midi.tracks[1], 1), CopyTrack(track, 1)>>)),
                     drum_track, has_drum_data)

split_midi_by_track_named(input_midi) ==
    IF Len(input_midi.tracks) = 0 THEN Raise("IndexError")
    ELSE LET done == SplitLoop(input_midi, 2, <<>>, <<>>, FALSE)
         IN  IF done.has_drum_data
             THEN Return(Append(done.return_midis,
                     MidiFile(input_midi.ticks_per_beat,
                              <<MetaMessages(input_midi.tracks[1], 1), done.drum_track>>)))
             ELSE Return(Append(done.return_midis, None))

----------------------------------------------------------------------------
(* midi_to_velocity_matrix *)

\* rows of a piano roll (line 342)
NumPitches == 128

\* getattr(midi_data, 'tempo', 500000): a MidiFile has no tempo attribute
DefaultTempo == 500000

\* a mutation of MixedStatus: only a melodic note after a drum note is caught
MixedStatusOneWay(is_drum, drum_status) == is_drum = {TRUE} /\ ~drum_status

\* line 332; is_drum is {} for None, else {TRUE} or {FALSE}
MixedStatus(is_drum, drum_status) == is_drum # {} /\ is_drum # {drum_status}

\* lines 322-334: the note messages of all tracks, in order
RECURSIVE CollectNotes(_, _, _, _, _)
CollectNotes(tracks, k, i, is_drum, notes) ==
    IF k > Len(tracks) THEN Return(notes)
    ELSE IF i > Len(tracks[k]) THEN CollectNotes(tracks, k + 1, 1, is_drum, notes)
    ELSE LET msg == tracks[k][i]
         IN  IF msg.type \in {"note_on", "note_off"} /\ has_channel(msg)
             THEN LET drum_status == msg.channel = 9
                  IN  IF MixedStatus(is_drum, drum_status)
                      THEN Raise("ValueError: MIDI contains both drum and non-drum tracks")
                      ELSE CollectNotes(tracks, k, i + 1, {drum_status},
                              Append(notes, [note |-> msg.note, velocity |-> msg.velocity,
                                             time |-> msg.time,
                                             is_note_on |-> msg.type = "note_on"]))
             ELSE CollectNotes(tracks, k, i + 1, is_drum, notes)

\* line 336
RECURSIVE SumNoteTimes(_, _)
SumNoteTimes(notes, i) ==
    IF i > Len(notes) THEN 0 ELSE notes[i].time + SumNoteTimes(notes, i + 1)

\* line 338: ticks_per_beat * (1_000_000 / tempo)
ticks_per_second_of(ticks_per_beat) == ticks_per_beat * (1000000 \div DefaultTempo)

\* lines 339-340 and 349: int((ticks / ticks_per_second) * fs).  The float
\* quotient and product are exact for the tick counts drawn here.
time_step_of(ticks, ticks_per_second, fs) == (ticks * fs) \div ticks_per_second

\* np.zeros((128, num_steps))
Zeros(rows, cols) == [p \in 0..(rows - 1) |-> [c \in 0..(cols - 1) |-> 0]]

\* a mutation of NoteOn: a note already sounding keeps its first record
NoteOnKeepFirst(active_notes, note, time_step, velocity) ==
    IF note \in DOMAIN active_notes THEN active_notes
    ELSE [n \in DOMAIN active_notes \cup {note} |->
            IF n = note THEN <<time_step, velocity>> ELSE active_notes[n]]

\* line 352: active_notes[note] = (time_step, velocity)
NoteOn(active_notes, note, time_step, velocity) ==
    [n \in DOMAIN active_notes \cup {note} |->
        IF n = note THEN <<time_step, velocity>> ELSE active_notes[n]]

\* lines 356-357: piano_roll_full[note, start_step:end_step] = note_velocity
FillNote(roll, note, start_step, end_step, note_velocity) ==
    IF start_step < end_step /\ 0 <= note /\ note < NumPitches
    THEN [roll EXCEPT ![note] =
            [c \in DOMAIN @ |-> IF start_step <= c /\ c < end_step THEN note_velocity ELSE @[c]]]
    ELSE roll

\* lines 347-358: the replay of the collected notes
RECURSIVE Replay(_, _, _, _, _, _, _)
Replay(notes, i, current, active_notes, roll, ticks_per_second, fs) ==
    IF i > Len(notes) THEN roll
    ELSE LET n == notes[i]
             current_time == current + n.time
             time_step == time_step_of(current_time, ticks_per_second, fs)
         IN  IF n.is_note_on /\ n.velocity > 0
             THEN Replay(notes, i + 1, current_time,
                         NoteOn(active_notes, n.note, time_step, n.velocity),
                         roll, ticks_per_second, fs)
             ELSE IF n.note \in DOMAIN active_notes
             THEN Replay(notes, i + 1, current_time,
                         [m \in DOMAIN active_notes \ {n.note} |-> active_notes[m]],
                         FillNote(roll, n.note, active_notes[n.note][1], time_step,
                                  active_notes[n.note][2]),
                         ticks_per_second, fs)
             ELSE Replay(notes, i + 1, current_time, active_notes, roll, ticks_per_second, fs)

\* lines 336-358: the full-length roll of a note list
piano_roll_full_of(notes, ticks_per_beat, fs) ==
    LET ticks_per_second == ticks_per_second_of(ticks_per_beat)
        num_steps == time_step_of(SumNoteTimes(notes, 1), ticks_per_second, fs)
    IN  Replay(notes, 1, 0, <<>>, Zeros(NumPitches, num_steps), ticks_per_second, fs)

\* a mutation of FinalRoll: a short roll is returned unpadded
FinalRollUnpadded(full, T, x) ==
    IF T >= x THEN [p \in 0..(NumPitches - 1) |-> [c \in 0..(x - 1) |-> full[p][c]]]
    ELSE full

\* lines 361-366: the first x columns, or the roll padded with zero columns
FinalRoll(full, T, x) ==
    IF T >= x THEN [p \in 0..(NumPitches - 1) |-> [c \in 0..(x - 1) |-> full[p][c]]]
    ELSE LET piano_roll == Zeros(NumPitches, x)
         IN  [p \in 0..(NumPitches - 1) |->
                [c \in 0..(x - 1) |-> IF c < T THEN full[p][c] ELSE piano_roll[p][c]]]

midi_to_velocity_matrix(input_midi, x, fs) ==
    LET collected == CollectNotes(input_midi.tracks, 1, 1, {}, <<>>)
    IN  IF ~collected.ok THEN collected
        ELSE IF input_midi.ticks_per_beat = 0 THEN Raise("ZeroDivisionError")
        ELSE LET full == piano_roll_full_of(collected.val, input_midi.ticks_per_beat, fs)
                 T == time_step_of(SumNoteTimes(collected.val, 1),
                                   ticks_per_second_of(input_midi.ticks_per_beat), fs)
             IN  Return(FinalRoll(full, T, x))

----------------------------------------------------------------------------
(* data_from_song_pipeline *)

\* x=64 of both rasterizer calls
PipelineWidth == 64

\* fs=1000, the rasterizer's default
DefaultRate == 1000

\* MidiFile(input_file) inside a helper: the file may fail to load
LoadThen(load_fails, result) == IF load_fails THEN Raise("OSError") ELSE result

\* a mutation of NoDrums: only an empty list is skipped
NoDrumsOnlyEmpty(split_tracks) == split_tracks = <<>>

\* line 38: not split_tracks or split_tracks[-1] is None
NoDrums(split_tracks) == split_tracks = <<>> \/ split_tracks[Len(split_tracks)] = None

\* inst_matrix.size
MatrixSize(matrix) == Cardinality(DOMAIN matrix) * Cardinality(DOMAIN matrix[0])

\* A matrix as all_data_pairs holds it in the state: its shape and its rows
\* that are not silent.  The encoding is one to one, it only keeps the states
\* small.
Held(matrix) ==
    LET silent == [c \in DOMAIN matrix[0] |-> 0]
    IN  [rows |-> Cardinality(DOMAIN matrix),
         cols |-> Cardinality(DOMAIN matrix[0]),
         sounding |-> [p \in {q \in DOMAIN matrix : matrix[q] # silent} |-> matrix[p]]]

\* a mutation of Pair: the instrument matrix is stored twice
PairInstrumentTwice(inst_matrix, drum_matrix) == <<Held(inst_matrix), Held(inst_matrix)>>

\* line 47: the tuple appended to all_data_pairs
Pair(inst_matrix, drum_matrix) == <<Held(inst_matrix), Held(drum_matrix)>>

\* lines 43-47: the loop over split_tracks[:-1]; a failure leaves the loop
\* with the pairs appended so far
RECURSIVE InstrumentLoop(_, _, _, _)
InstrumentLoop(split_tracks, i, drum_matrix, pairs) ==
    IF i > Len(split_tracks) - 1 THEN [outcome |-> "pairs", pairs |-> pairs]
    ELSE IF split_tracks[i] = None
    THEN InstrumentLoop(split_tracks, i + 1, drum_matrix, pairs)
    ELSE LET inst == midi_to_velocity_matrix(split_tracks[i], PipelineWidth, DefaultRate)
         IN  IF ~inst.ok THEN [outcome |-> "failed", pairs |-> pairs]
             ELSE IF MatrixSize(inst.val) = 0
             THEN InstrumentLoop(split_tracks, i + 1, drum_matrix, pairs)
             ELSE InstrumentLoop(split_tracks, i + 1, drum_matrix,
                                 Append(pairs, Pair(inst.val, drum_matrix)))

\* lines 35-49: the body of the loop for one measure
ProcessMeasure(input_midi, n, load_fails) ==
    LET measure_midi == LoadThen(load_fails, extract_measure(n, input_midi))
    IN  IF ~measure_midi.ok THEN [outcome |-> "failed", pairs |-> <<>>]
        ELSE LET split_tracks == split_midi_by_track_named(measure_midi.val)
             IN  IF ~split_tracks.ok THEN [outcome |-> "failed", pairs |-> <<>>]
                 ELSE IF NoDrums(split_tracks.val) THEN [outcome |-> "no_drums", pairs |-> <<>>]
                 ELSE LET drum_matrix ==
                              midi_to_velocity_matrix(split_tracks.val[Len(split_tracks.val)],
                                                      PipelineWidth, DefaultRate)
                      IN  IF ~drum_matrix.ok THEN [outcome |-> "failed", pairs |-> <<>>]
                          ELSE InstrumentLoop(split_tracks.val, 1, drum_matrix.val, <<>>)

\* a mutation of LastMeasure: range(1, num_measures)
LastMeasureExclusive(n) == n - 1

\* line 34: range(1, num_measures + 1) ends with num_measures
LastMeasure(n) == n

----------------------------------------------------------------------------
(* Input documents *)

\* Track[0] of the counting and extraction inputs: signatures and a tempo
MetaAlphabet ==
    {time_signature(0, 4, 4), time_signature(0, 3, 4), time_signature(1440, 4, 4),
     set_tempo(0, 500000), set_tempo(1920, 400000)}

\* the performance track of the extraction inputs
ExtractAlphabet ==
    {program_change(t, 0, 5) : t \in {0, 1920}}
    \cup {control_change(0, 0, 7, 100)}
    \cup {note_on(t, 0, 60, 80) : t \in {0, 1920, 3840}}
    \cup {lyrics(0, "la")}

ExtractDocs(len) ==
    {MidiFile(480, <<t0, t1>>) :
        t0 \in BoundedSeq(MetaAlphabet, MaxMetaLen), t1 \in BoundedSeq(ExtractAlphabet, len)}

\* the performance track of the counting inputs
CountAlphabet == {note_on(t, 0, 60, 80) : t \in {0, 1000, 3840}}

CountDocs(len) ==
    {MidiFile(480, <<t0>>) : t0 \in BoundedSeq(MetaAlphabet, MaxMetaLen)}
    \cup {MidiFile(480, <<t0, t1>>) :
            t0 \in BoundedSeq(MetaAlphabet, MaxMetaLen), t1 \in BoundedSeq(CountAlphabet, len)}

----------------------------------------------------------------------------
(* Specifications: one per helper *)

Idle ==
    /\ pc = "idle"
    /\ measure_num = 0
    /\ ret = NoCall
    /\ width = 0
    /\ rate = 0
    /\ all_data_pairs = <<>>
    /\ num_measures = 0
    /\ history = <<>>

CountMeasures ==
    /\ pc = "idle"
    /\ pc' = "count_measures"
    /\ ret' = count_measures(mid)
    /\ UNCHANGED <<mid, measure_num, width, rate, all_data_pairs, num_measures, history>>

InitCount == mid \in CountDocs(MaxLen) /\ Idle

SpecCount == InitCount /\ [][CountMeasures]_vars

ExtractMeasure ==
    /\ pc = "idle"
    /\ \E n \in 1..MaxMeasure :
          /\ measure_num' = n
          /\ ret' = extract_measure(n, mid)
    /\ pc' = "extract_measure"
    /\ UNCHANGED <<mid, width, rate, all_data_pairs, num_measures, history>>

InitExtract == mid \in ExtractDocs(MaxLen) /\ Idle

SpecExtract == InitExtract /\ [][ExtractMeasure]_vars

\* the ways to cut a stream of length len into n consecutive tracks
CutsOf(n, len) ==
    {c \in [0..n -> 0..len] : c[0] = 0 /\ c[n] = len /\ \A k \in 1..n : c[k - 1] <= c[k]}

\* the stream s cut into n tracks at the positions c
CutTracks(s, n, c) == [k \in 1..n |-> SubSeq(s, c[k - 1] + 1, c[k])]

\* every way to lay a stream over 1..n tracks
TrackLayouts(alphabet, n, len) ==
    UNION {{CutTracks(s, n, c) : c \in CutsOf(n, Len(s))} : s \in BoundedSeq(alphabet, len)}

\* the performance stream of the splitting inputs
SplitAlphabet ==
    {note_on(0, 0, 60, 80), program_change(0, 0, 5), track_name(0, "piano"),
     note_on(0, 9, 36, 100), note_on(480, 9, 38, 90)}

\* Track[0] of the splitting inputs; the last one carries a stray channel message
SplitMetaTracks ==
    {<<>>, <<time_signature(0, 4, 4), set_tempo(0, 500000)>>,
     <<time_signature(0, 3, 4), note_on(0, 9, 36, 100)>>}

SplitDocs(len) ==
    {MidiFile(480, <<t0>>) : t0 \in SplitMetaTracks}
    \cup UNION {{MidiFile(480, <<t0>> \o trks) : t0 \in SplitMetaTracks,
                                                trks \in TrackLayouts(SplitAlphabet, n, len)} :
                n \in 1..MaxTracks}

SplitByTrack ==
    /\ pc = "idle"
    /\ pc' = "split_midi_by_track_named"
    /\ ret' = split_midi_by_track_named(mid)
    /\ UNCHANGED <<mid, measure_num, width, rate, all_data_pairs, num_measures, history>>

InitSplit == mid \in SplitDocs(MaxLen) /\ Idle

SpecSplit == InitSplit /\ [][SplitByTrack]_vars

\* the note stream of the rasterizing inputs, at one tick per beat
RasterAlphabet ==
    {note_on(0, 0, 60, 80), note_on(1, 0, 60, 100), note_off(1, 0, 60),
     note_on(1, 0, 60, 0), note_on(0, 9, 36, 100), program_change(1, 0, 5)}

RasterDocs(len) ==
    UNION {{MidiFile(1, trks) : trks \in TrackLayouts(RasterAlphabet, n, len)} : n \in 1..MaxTracks}

\* the sample rates fs handed to midi_to_velocity_matrix on its own
RasterRates == {1, 2}

Rasterize ==
    /\ pc = "idle"
    /\ \E x \in 0..MaxWidth, fs \in RasterRates :
          /\ width' = x
          /\ rate' = fs
          /\ ret' = midi_to_velocity_matrix(mid, x, fs)
    /\ pc' = "midi_to_velocity_matrix"
    /\ UNCHANGED <<mid, measure_num, all_data_pairs, num_measures, history>>

InitRaster == mid \in RasterDocs(MaxLen) /\ Idle

SpecRaster == InitRaster /\ [][Rasterize]_vars

\* the performance stream of the pipeline inputs
SongAlphabet ==
    {note_on(0, 9, 36, 100), note_off(48, 9, 36), control_change(1920, 0, 7, 100)}

\* Track[0] of the songs
SongMetaTrack == <<time_signature(0, 4, 4), set_tempo(0, 500000)>>

\* the songs, of up to MaxTracks + 1 performance tracks so that a measure can
\* hold a drum track beside two instruments, with the file that holds no track
SongDocs(len) ==
    {MidiFile(480, <<>>)}
    \cup UNION {{MidiFile(480, <<SongMetaTrack>> \o trks) : trks \in TrackLayouts(SongAlphabet, n, len)} :
                n \in 1..(MaxTracks + 1)}

\* lines 28-33: count_measures, and [] when it fails
PipelineCount ==
    /\ pc = "idle"
    /\ \E load_fails \in BOOLEAN :
          LET counted == LoadThen(load_fails, count_measures(mid))
          IN  IF counted.ok
              THEN /\ num_measures' = counted.val
                   /\ pc' = "loop"
                   /\ ret' = ret
              ELSE /\ num_measures' = num_measures
                   /\ pc' = "returned"
                   /\ ret' = Return(<<>>)
    /\ UNCHANGED <<mid, measure_num, width, rate, all_data_pairs, history>>

\* lines 34-49: one iteration of the loop over the measures
PipelineMeasure ==
    /\ pc = "loop"
    /\ measure_num < LastMeasure(num_measures)
    /\ \E load_fails \in BOOLEAN :
          LET done == ProcessMeasure(mid, measure_num + 1, load_fails)
          IN  /\ all_data_pairs' = all_data_pairs \o done.pairs
              /\ history' = Append(history, [measure |-> measure_num + 1,
                                             outcome |-> done.outcome,
                                             load_failed |-> load_fails,
                                             before |-> Len(all_data_pairs),
                                             after |-> Len(all_data_pairs) + Len(done.pairs)])
    /\ measure_num' = measure_num + 1
    /\ UNCHANGED <<mid, pc, ret, width, rate, num_measures>>

\* line 50
PipelineReturn ==
    /\ pc = "loop"
    /\ measure_num >= LastMeasure(num_measures)
    /\ pc' = "returned"
    /\ ret' = Return(all_data_pairs)
    /\ UNCHANGED <<mid, measure_num, width, rate, all_data_pairs, num_measures, history>>

InitPipeline == mid \in SongDocs(MaxLen) /\ Idle

NextPipeline == PipelineCount \/ PipelineMeasure \/ PipelineReturn

SpecPipeline == InitPipeline /\ [][NextPipeline]_vars

----------------------------------------------------------------------------
(* Vocabulary of the properties, stated on the input and not on the loops *)

Min(S) == CHOOSE v \in S : \A w \in S : v <= w

Max(S) == CHOOSE v \in S : \A w \in S : v >= w

\* the m-th smallest element of a set of indices
Nth(S, m) == CHOOSE i \in S : Cardinality({j \in S : j < i}) = m - 1

\* equal up to the delta time: what msg.copy() followed by a new time keeps
SameEvent(a, b) == copy_time(a, 0) = copy_time(b, 0)

TimeSigIdx(track) == {i \in 1..Len(track) : track[i].type = "time_signature"}

\* numerator of the first time signature of Track[0], 4 when there is none
ClaimedNumerator(doc) ==
    LET t0 == doc.tracks[1]
    IN  IF TimeSigIdx(t0) = {} THEN 4 ELSE t0[Min(TimeSigIdx(t0))].numerator

\* indices of the messages of a track whose absolute tick lies in [lo, hi)
InWindowIdx(track, lo, hi) ==
    {i \in 1..Len(track) : lo <= AbsTick(track, i) /\ AbsTick(track, i) < hi}

ContextTypes ==
    {"track_name", "set_tempo", "time_signature", "key_signature",
     "program_change", "control_change"}

\* indices of the context messages of a track strictly before tick lo
ContextIdx(track, lo) ==
    {i \in 1..Len(track) : AbsTick(track, i) < lo /\ track[i].type \in ContextTypes}

ExtractDone == pc = "extract_measure" /\ ret.ok

FourFour480 == mid.ticks_per_beat = 480 /\ ClaimedNumerator(mid) = 4

----------------------------------------------------------------------------
(* C1 *)

\* C1 as stated: in a 4/4 document with 480 ticks per beat, every message of
\* every track of extract_measure(doc, N) is a copy of a message of the same
\* input track whose absolute tick lies in [(N-1)*1920, N*1920).
C1_OnlyWindowEvents ==
    (ExtractDone /\ FourFour480) =>
        \A k \in 1..Len(mid.tracks) :
            \A j \in 1..Len(ret.val.tracks[k]) :
                \E i \in InWindowIdx(mid.tracks[k], (measure_num - 1) * 1920, measure_num * 1920) :
                    SameEvent(ret.val.tracks[k][j], mid.tracks[k][i])

\* C1 (amended): in a 4/4 document with 480 ticks per beat, each track of
\* extract_measure(doc, N) is empty when the input track has no message in
\* [(N-1)*1920, N*1920); otherwise it is the copies of the input track's context
\* messages (track_name, set_tempo, time_signature, key_signature,
\* program_change, control_change) with absolute tick below (N-1)*1920, in
\* order, followed by the copies of exactly the messages with absolute tick
\* in [(N-1)*1920, N*1920), in order.  Nothing at or past N*1920 is kept, and
\* measure 1 holds only messages with absolute tick in [0, 1920).
C1_BoundaryLaw ==
    (ExtractDone /\ FourFour480) =>
        \A k \in 1..Len(mid.tracks) :
            LET in == mid.tracks[k]
                out == ret.val.tracks[k]
                lo == (measure_num - 1) * 1920
                W == InWindowIdx(in, lo, measure_num * 1920)
                C == ContextIdx(in, lo)
                nc == Cardinality(C)
            IN  /\ W = {} => out = <<>>
                /\ W # {} =>
                     /\ Len(out) = nc + Cardinality(W)
                     /\ \A j \in 1..nc : SameEvent(out[j], in[Nth(C, j)])
                     /\ \A m \in 1..Cardinality(W) : SameEvent(out[nc + m], in[Nth(W, m)])
                /\ measure_num = 1 =>
                     \A j \in 1..Len(out) : \E i \in InWindowIdx(in, 0, 1920) : SameEvent(out[j], in[i])

\* a measure-2 extraction keeping a carried message, a window message and
\* dropping a message that sits exactly on the end tick
C1_Witness ==
    /\ ExtractDone /\ FourFour480 /\ measure_num = 2
    /\ \E k \in 1..Len(mid.tracks) :
          /\ ContextIdx(mid.tracks[k], 1920) # {}
          /\ InWindowIdx(mid.tracks[k], 1920, 3840) # {}
          /\ \E i \in 1..Len(mid.tracks[k]) : AbsTick(mid.tracks[k], i) = 3840
          /\ Len(ret.val.tracks[k]) = 2

----------------------------------------------------------------------------
(* C2 *)

ProgramIdx(track) == {i \in 1..Len(track) : track[i].type = "program_change"}

\* C2 as stated, on the tracks where a flush happens: when a track's only
\* program_change lies before measure 3, is the track's earliest context
\* message and the track has a message inside measure 3, the extracted track
\* starts with a copy of it at delta time 0; and whenever context is flushed,
\* the first flushed message has delta time 0 and each later one the
\* difference to the one flushed before it.
C2_CarryForward ==
    ExtractDone =>
        \A k \in 1..Len(mid.tracks) :
            LET in == mid.tracks[k]
                out == ret.val.tracks[k]
                lo == (measure_num - 1) * ClaimedNumerator(mid) * mid.ticks_per_beat
                hi == measure_num * ClaimedNumerator(mid) * mid.ticks_per_beat
                C == ContextIdx(in, lo)
            IN  (InWindowIdx(in, lo, hi) # {} /\ C # {}) =>
                    /\ Len(out) >= Cardinality(C)
                    /\ out[1].time = 0
                    /\ \A j \in 2..Cardinality(C) :
                          out[j].time = AbsTick(in, Nth(C, j)) - AbsTick(in, Nth(C, j - 1))
                    /\ (measure_num = 3 /\ Cardinality(ProgramIdx(in)) = 1
                          /\ ProgramIdx(in) \subseteq C /\ Min(C) \in ProgramIdx(in)) =>
                            out[1] = copy_time(in[Min(C)], 0)

----------------------------------------------------------------------------
(* C7 *)

CountDone == pc = "count_measures"

\* largest sum of delta times over the tracks
MaxTrackTicks(doc) == Max({AbsTick(doc.tracks[k], Len(doc.tracks[k])) : k \in 1..Len(doc.tracks)})

\* least numerator * ticks_per_beat over the time signatures of Track[0],
\* 4 * ticks_per_beat when there is none
SmallestMeasureTicks(doc) ==
    LET t0 == doc.tracks[1]
    IN  IF TimeSigIdx(t0) = {} THEN 4 * doc.ticks_per_beat
        ELSE Min({t0[i].numerator * doc.ticks_per_beat : i \in TimeSigIdx(t0)})

\* q = floor(a / b) for b > 0, by its defining inequalities
IsFloor(q, a, b) == q * b <= a /\ a < (q + 1) * b

\* C7: for a document with at least one track count_measures returns
\* floor(max_track_ticks / smallest_ticks_per_measure), an integer >= 0; with no
\* time signature, 480 ticks per beat and a longest track of 7680 ticks it
\* returns 4.
C7_CountFormula ==
    (CountDone /\ Len(mid.tracks) >= 1) =>
        /\ ret.ok
        /\ IsFloor(ret.val, MaxTrackTicks(mid), SmallestMeasureTicks(mid))
        /\ ret.val >= 0
        /\ (TimeSigIdx(mid.tracks[1]) = {} /\ mid.ticks_per_beat = 480
              /\ MaxTrackTicks(mid) = 7680) => ret.val = 4

\* the 7680-tick document without a time signature was counted
C7_Witness ==
    /\ CountDone /\ ret.ok /\ ret.val = 4
    /\ TimeSigIdx(mid.tracks[1]) = {}
    /\ mid.ticks_per_beat = 480
    /\ MaxTrackTicks(mid) = 7680

----------------------------------------------------------------------------
(* C8 *)

\* numerator in force at tick pos: that of the last time signature of Track[0]
\* at or before pos, 4 before any
ActiveNumerator(doc, pos) ==
    LET t0 == doc.tracks[1]
        S == {i \in TimeSigIdx(t0) : AbsTick(t0, i) <= pos}
    IN  IF S = {} THEN 4 ELSE t0[Max(S)].numerator

\* complete measures laid out from tick pos up to tick total
RECURSIVE LayOutMeasures(_, _, _)
LayOutMeasures(doc, pos, total) ==
    LET len == ActiveNumerator(doc, pos) * doc.ticks_per_beat
    IN  IF len <= 0 \/ pos + len > total THEN 0
        ELSE 1 + LayOutMeasures(doc, pos + len, total)

ActualMeasures(doc) == LayOutMeasures(doc, 0, MaxTrackTicks(doc))

\* C8: the count returned by count_measures never exceeds the number of
\* complete measures the document contains, each measure as long as the time
\* signature in force at its start says.
C8_LowerBound ==
    (CountDone /\ Len(mid.tracks) >= 1 /\ ret.ok) => ret.val <= ActualMeasures(mid)

----------------------------------------------------------------------------
(* C3 *)

SplitDone == pc = "split_midi_by_track_named"

\* the channel set of a track: the channels of its channel messages
ChannelSet(track) ==
    {track[i].channel : i \in {j \in 1..Len(track) : "channel" \in DOMAIN track[j]}}

\* indices (beyond Track[0]) of the tracks with and without channel 9
DrumTrackIdx(doc) == {k \in 2..Len(doc.tracks) : 9 \in ChannelSet(doc.tracks[k])}

MelodicTrackIdx(doc) == {k \in 2..Len(doc.tracks) : 9 \notin ChannelSet(doc.tracks[k])}

\* C3: for a document with at least one track the returned list is non-empty;
\* its last element is a drum document when some track beyond index 0 has a
\* channel-9 event and is absent otherwise; the elements before it are the
\* melodic documents, one per track beyond index 0 without channel 9, in input
\* order.  A {0} track plus a {9} track give one melodic and one drum document.
C3_ResultShape ==
    (SplitDone /\ Len(mid.tracks) >= 1) =>
        /\ ret.ok
        /\ Len(ret.val) >= 1
        /\ (DrumTrackIdx(mid) # {}) <=> (ret.val[Len(ret.val)] # None)
        /\ Len(ret.val) - 1 = Cardinality(MelodicTrackIdx(mid))
        /\ \A m \in 1..(Len(ret.val) - 1) :
              /\ ret.val[m] # None
              /\ Len(ret.val[m].tracks) = 2
              /\ ret.val[m].tracks[2] = mid.tracks[Nth(MelodicTrackIdx(mid), m)]
        /\ (Len(mid.tracks) = 3
              /\ {ChannelSet(mid.tracks[2]), ChannelSet(mid.tracks[3])} = {{0}, {9}}) =>
                 (Len(ret.val) = 2 /\ ret.val[1] # None /\ ret.val[2] # None)

\* a {0} track and a {9} track were split into one melodic and one drum document
C3_Witness ==
    /\ SplitDone /\ ret.ok
    /\ Len(mid.tracks) = 3
    /\ ChannelSet(mid.tracks[2]) = {0}
    /\ ChannelSet(mid.tracks[3]) = {9}
    /\ Len(ret.val) = 2
    /\ ret.val[2] # None

----------------------------------------------------------------------------
(* C9 *)

IsMetaMessage(msg) == "channel" \notin DOMAIN msg

IsChannel9(msg) == "channel" \in DOMAIN msg /\ msg.channel = 9

\* the channel-9 messages of the drum-bearing tracks k..Len, concatenated
RECURSIVE DrumConcat(_, _)
DrumConcat(doc, k) ==
    IF k > Len(doc.tracks) THEN <<>>
    ELSE (IF k \in DrumTrackIdx(doc) THEN SelectSeq(doc.tracks[k], IsChannel9) ELSE <<>>)
         \o DrumConcat(doc, k + 1)

\* C9: a track beyond index 0 whose channel set contains 9 gets no melodic
\* document, and none of its other messages reaches a returned document: the
\* melodic documents carry exactly the tracks without channel 9, and Track[1]
\* of the drum document is exactly the channel-9 messages of the drum-bearing
\* tracks, concatenated in track order and in original order.  Track[0] of
\* every returned document is exactly the meta messages of the input's Track[0].
C9_DrumTaint ==
    (SplitDone /\ Len(mid.tracks) >= 1 /\ ret.ok) =>
        LET n == Len(ret.val)
        IN  /\ n - 1 = Cardinality(MelodicTrackIdx(mid))
            /\ \A m \in 1..(n - 1) :
                  ret.val[m].tracks[2] = mid.tracks[Nth(MelodicTrackIdx(mid), m)]
            /\ DrumTrackIdx(mid) # {} =>
                  /\ ret.val[n] # None
                  /\ Len(ret.val[n].tracks) = 2
                  /\ ret.val[n].tracks[2] = DrumConcat(mid, 2)
                  /\ \A j \in 1..Len(ret.val[n].tracks[2]) : IsChannel9(ret.val[n].tracks[2][j])
            /\ \A m \in 1..n :
                  ret.val[m] # None =>
                      ret.val[m].tracks[1] = SelectSeq(mid.tracks[1], IsMetaMessage)

\* a track mixing channel 9 with another message was split, beside a second
\* drum-bearing track, from a Track[0] with a stray channel message
C9_Witness ==
    /\ SplitDone /\ ret.ok
    /\ Cardinality(DrumTrackIdx(mid)) = 2
    /\ \E k \in DrumTrackIdx(mid) :
          \E i \in 1..Len(mid.tracks[k]) : ~IsChannel9(mid.tracks[k][i])
    /\ \E i \in 1..Len(mid.tracks[1]) : ~IsMetaMessage(mid.tracks[1][i])
    /\ Len(ret.val) = 1
    /\ Len(ret.val[1].tracks[2]) = 2

----------------------------------------------------------------------------
(* C4 *)

RasterDone == pc = "midi_to_velocity_matrix"

RECURSIVE Flatten(_, _)
Flatten(tracks, k) == IF k > Len(tracks) THEN <<>> ELSE tracks[k] \o Flatten(tracks, k + 1)

IsNoteMessage(msg) == msg.type \in {"note_on", "note_off"}

\* the note messages of a document, track after track
NoteMessages(doc) == SelectSeq(Flatten(doc.tracks, 1), IsNoteMessage)

\* the full-length roll of the rasterized document
FullRoll ==
    piano_roll_full_of([i \in 1..Len(NoteMessages(mid)) |->
                           [note |-> NoteMessages(mid)[i].note,
                            velocity |-> NoteMessages(mid)[i].velocity,
                            time |-> NoteMessages(mid)[i].time,
                            is_note_on |-> NoteMessages(mid)[i].type = "note_on"]],
                       mid.ticks_per_beat, rate)

Columns(roll) == Cardinality(DOMAIN roll[0])

\* C4: whenever midi_to_velocity_matrix returns, for every width x >= 0 and
\* sample rate, the matrix has exactly 128 rows and exactly x columns: the
\* first x columns of the full-length roll when that has at least x columns,
\* otherwise the full roll followed by zero columns.
C4_MatrixShape ==
    (RasterDone /\ ret.ok) =>
        LET full == FullRoll
            T == Columns(full)
        IN  /\ DOMAIN ret.val = 0..127
            /\ \A p \in 0..127 : DOMAIN ret.val[p] = 0..(width - 1)
            /\ T >= width =>
                  \A p \in 0..127 : \A c \in 0..(width - 1) : ret.val[p][c] = full[p][c]
            /\ T < width =>
                  \A p \in 0..127 : \A c \in 0..(width - 1) :
                      ret.val[p][c] = IF c < T THEN full[p][c] ELSE 0

\* a roll with a sounding note, shorter than the requested width, was padded
C4_Witness ==
    /\ RasterDone /\ ret.ok
    /\ Columns(FullRoll) >= 1
    /\ Columns(FullRoll) < width
    /\ ret.val[60][0] > 0
    /\ ret.val[60][width - 1] = 0

----------------------------------------------------------------------------
(* C5 *)

HasDrumNote(doc) ==
    \E i \in 1..Len(NoteMessages(doc)) : NoteMessages(doc)[i].channel = 9

HasMelodicNote(doc) ==
    \E i \in 1..Len(NoteMessages(doc)) : NoteMessages(doc)[i].channel # 9

MixedContentError == Raise("ValueError: MIDI contains both drum and non-drum tracks")

\* C5: rasterizing a document that holds both a channel-9 note message and a
\* note message of another channel, in any tracks and any order, fails with
\* the mixed-content error and returns no matrix; a document whose note
\* messages are all channel 9 or all of other channels never fails with it.
C5_MixedContent ==
    RasterDone =>
        /\ (HasDrumNote(mid) /\ HasMelodicNote(mid)) => ret = MixedContentError
        /\ ~(HasDrumNote(mid) /\ HasMelodicNote(mid)) => (ret.ok /\ ret # MixedContentError)

\* a melodic note in one track followed by a drum note in the next was refused
C5_Witness ==
    /\ RasterDone
    /\ ret = MixedContentError
    /\ Len(mid.tracks) = 2
    /\ Len(mid.tracks[1]) >= 1 /\ Len(mid.tracks[2]) >= 1
    /\ \A i \in 1..Len(mid.tracks[1]) :
          IsNoteMessage(mid.tracks[1][i]) /\ mid.tracks[1][i].channel = 0
    /\ \A i \in 1..Len(mid.tracks[2]) :
          IsNoteMessage(mid.tracks[2][i]) /\ mid.tracks[2][i].channel = 9

----------------------------------------------------------------------------
(* C6 *)

IsSoundingOn(msg) == msg.type = "note_on" /\ msg.velocity > 0

\* time step of the k-th note message: its absolute tick over the note stream
StepOf(k) ==
    time_step_of(AbsTick(NoteMessages(mid), k), ticks_per_second_of(mid.ticks_per_beat), rate)

\* note-on j is the last writer of its pitch when off-message k ends it
LastWriter(j, k) ==
    LET N == NoteMessages(mid)
    IN  /\ j < k
        /\ IsSoundingOn(N[j])
        /\ ~IsSoundingOn(N[k])
        /\ N[j].note = N[k].note
        /\ \A m \in (j + 1)..(k - 1) : N[m].note # N[j].note

\* C6: last writer wins.  When a note-on with velocity > 0 is the most recent
\* one for its pitch (whether or not it overwrote a still active note) and the
\* next note-off or velocity-0 note-on for that pitch follows, the columns from
\* the note-on's step up to the note-off's step hold the note-on's velocity;
\* note-ons 80 then 100 at pitch 60 leave 100 in the overlapping region.
C6_LastWriterWins ==
    (RasterDone /\ ret.ok) =>
        \A j \in 1..Len(NoteMessages(mid)) : \A k \in 1..Len(NoteMessages(mid)) :
            LastWriter(j, k) =>
                \A c \in StepOf(j)..(StepOf(k) - 1) :
                    c < width => ret.val[NoteMessages(mid)[j].note][c] = NoteMessages(mid)[j].velocity

\* pitch 60 struck at 80, struck again at 100 while sounding, then released:
\* the overlapping region shows 100
C6_Witness ==
    /\ RasterDone /\ ret.ok
    /\ Len(NoteMessages(mid)) = 3
    /\ NoteMessages(mid)[1].velocity = 80 /\ IsSoundingOn(NoteMessages(mid)[1])
    /\ NoteMessages(mid)[2].velocity = 100 /\ LastWriter(2, 3)
    /\ NoteMessages(mid)[1].note = 60 /\ NoteMessages(mid)[2].note = 60
    /\ StepOf(1) < StepOf(2) /\ StepOf(2) < StepOf(3) /\ StepOf(2) < width
    /\ ret.val[60][StepOf(2)] = 100

----------------------------------------------------------------------------
(* C10 *)

\* the split of measure m of the song, helper after helper
SplitOfMeasure(m) == split_midi_by_track_named(extract_measure(m, mid).val).val

\* the matrix the pipeline asks of a document
PipelineMatrix(doc) == Held(midi_to_velocity_matrix(doc, 64, 1000).val)

\* C10: the measures are processed in ascending order, 1..count_measures(doc),
\* and all of them even after a failure; a measure that failed, or whose split
\* has an absent drum slot, contributes no pair; any other measure contributes
\* one pair per instrument document, in order, each carrying that measure's one
\* drum matrix, as the returned list shows; a failure of count_measures yields
\* an empty result.
C10_Resilience ==
    /\ \A i \in 1..Len(history) :
          LET h == history[i]
          IN  /\ h.measure = i
              /\ i <= count_measures(mid).val
              /\ h.before = (IF i = 1 THEN 0 ELSE history[i - 1].after)
              /\ h.load_failed => h.outcome = "failed"
              /\ h.outcome = "failed" => h.after = h.before
              /\ (pc = "returned" /\ ~h.load_failed) =>
                    LET split_tracks == SplitOfMeasure(i)
                        drum == split_tracks[Len(split_tracks)]
                    IN  /\ drum = None => (h.outcome = "no_drums" /\ h.after = h.before)
                        /\ drum # None =>
                              /\ h.outcome = "pairs"
                              /\ h.after - h.before = Len(split_tracks) - 1
                              /\ \A j \in 1..(h.after - h.before) :
                                    /\ all_data_pairs[h.before + j][1] = PipelineMatrix(split_tracks[j])
                                    /\ all_data_pairs[h.before + j][2] = PipelineMatrix(drum)
    /\ Len(all_data_pairs) = (IF history = <<>> THEN 0 ELSE history[Len(history)].after)
    /\ pc = "returned" =>
          /\ ret = Return(all_data_pairs)
          /\ ~count_measures(mid).ok => ret = Return(<<>>)
          /\ history = <<>> => ret = Return(<<>>)
          /\ (count_measures(mid).ok /\ num_measures > 0) =>
                 Len(history) = count_measures(mid).val

\* a song whose first measure failed to load and whose second measure still
\* gave its pair, the only one returned
C10_Witness ==
    /\ pc = "returned"
    /\ Len(history) >= 2
    /\ history[1].outcome = "failed"
    /\ history[2].outcome = "pairs"
    /\ history[2].after > history[2].before
    /\ Len(ret.val) = history[2].after - history[2].before

----------------------------------------------------------------------------
(* C11 *)

\* absolute tick of the j-th message of an extracted track: the sum of the
\* delta times from its first message up to and including the j-th
OutTick(out, j) == AbsTick(out, j)

\* C11 as stated: in every track of extract_measure(doc, N) that has a message
\* in the window, the absolute tick of each in-window message, summed over the
\* output track's delta times, is its absolute tick in the input track minus
\* start_tick, also when carried-forward context messages are emitted ahead of
\* the first in-window message.
C11_WindowRelative ==
    ExtractDone =>
        \A k \in 1..Len(mid.tracks) :
            LET in == mid.tracks[k]
                out == ret.val.tracks[k]
                lo == (measure_num - 1) * ClaimedNumerator(mid) * mid.ticks_per_beat
                hi == measure_num * ClaimedNumerator(mid) * mid.ticks_per_beat
                W == InWindowIdx(in, lo, hi)
                nc == Cardinality(ContextIdx(in, lo))
            IN  Len(out) = nc + Cardinality(W) =>
                    \A m \in 1..Cardinality(W) :
                        OutTick(out, nc + m) = AbsTick(in, Nth(W, m)) - lo

----------------------------------------------------------------------------
(* C12 *)

\* the documents of a returned split list are of one kind each: no channel-9
\* note message in a melodic document, nothing but channel-9 messages in
\* Track[1] of the drum document, and rasterizing any of them never fails with
\* the mixed-content error (which is raised before width and rate are used)
OneKindEach(split_tracks) ==
    \A i \in 1..Len(split_tracks) :
        LET doc == split_tracks[i]
        IN  doc # None =>
              /\ i < Len(split_tracks) => ~HasDrumNote(doc)
              /\ i = Len(split_tracks) =>
                    /\ Len(doc.tracks) = 2
                    /\ \A j \in 1..Len(doc.tracks[2]) : IsChannel9(doc.tracks[2][j])
                    /\ ~HasMelodicNote(doc)
              /\ midi_to_velocity_matrix(doc, MaxWidth, 1) # MixedContentError

\* C12: for every input document with at least one track, also one whose
\* tracks mix channel 9 with other channels, and for the measures
\* extract_measure cuts out of it, every non-absent document returned by
\* split_midi_by_track_named holds note messages of one kind only, so
\* midi_to_velocity_matrix never fails on it with the mixed-content error.
C12_SplitRasterizable ==
    (SplitDone /\ Len(mid.tracks) >= 1) =>
        /\ ret.ok
        /\ OneKindEach(ret.val)
        /\ \A n \in 1..MaxMeasure :
              LET split_tracks == split_midi_by_track_named(extract_measure(n, mid).val)
              IN  split_tracks.ok /\ OneKindEach(split_tracks.val)

\* a track mixing a channel-9 note with a channel-0 note, next to a melodic
\* track with a note, was split into a melodic and a drum document, and both
\* rasterize
C12_Witness ==
    /\ SplitDone /\ ret.ok
    /\ Len(mid.tracks) = 3
    /\ \E k \in 2..3 : HasDrumNote(MidiFile(480, <<mid.tracks[k]>>))
                       /\ HasMelodicNote(MidiFile(480, <<mid.tracks[k]>>))
    /\ Len(ret.val) = 2
    /\ ret.val[2] # None
    /\ HasMelodicNote(ret.val[1])
    /\ HasDrumNote(ret.val[2])
    /\ midi_to_velocity_matrix(ret.val[1], MaxWidth, 1).ok
    /\ midi_to_velocity_matrix(ret.val[2], MaxWidth, 1).ok

=============================================================================
